---- MODULE Spec2Model ----
(***************************************************************************)
(* Text-Interpolator: TextInterpolator::interp, contains_template,         *)
(* is_template and extract_template (src/src/lib.rs).                      *)
(*                                                                         *)
(* A string is a sequence of characters.  A character is written as a     *)
(* one-letter TLA+ string, except the two characters that UTF-8 encodes   *)
(* in two bytes: "U00A7" (the section sign, not alphanumeric) and "U00E9" *)
(* (e with acute accent, alphanumeric).                                   *)
(***************************************************************************)
EXTENDS Integers, Sequences, FiniteSets, TLC

VARIABLES
    times_recursed,   \* TextInterpolator.times_recursed (u8)
    stack,            \* the active interp activations, outermost first
    status,           \* "idle", "running", "returned", "panicked", "overflow"
    result,           \* the value being returned by interp
    text,             \* the text of the current top-level call
    map,              \* the resolver of the current top-level call
    asked_none,       \* the resolver has answered None during this call
    calls,            \* top-level calls made on this instance so far
    embedded_template,\* argument of a direct call of extract_template
    extracted,        \* what that call returned
    applied           \* that call has been made

vars == <<times_recursed, stack, status, result, text, map, asked_none, calls,
          embedded_template, extracted, applied>>

interpVars == <<times_recursed, stack, status, result, text, map, asked_none, calls>>
extractVars == <<embedded_template, extracted, applied>>

-----------------------------------------------------------------------------
(* Bounds *)

StackLimit == 28
MaxCalls == 2
MaxTokenLen == 4

RECURSION_LIMIT == 25
U8Modulus == 256

-----------------------------------------------------------------------------
(* Characters and strings *)

Marker == "'"
Space == " "

IsAlphanumeric(ch) == ch \in {"a", "t", "u", "e", "x", "y", "p", "U00E9"}

IsWhitespace(ch) == ch = Space

Utf8Len(ch) == IF ch \in {"U00A7", "U00E9"} THEN 2 ELSE 1

RECURSIVE ByteLen(_)
ByteLen(s) == IF s = <<>> THEN 0 ELSE Utf8Len(Head(s)) + ByteLen(Tail(s))

\* &s[b..]: the slice from byte offset b; a panic unless b is a char boundary
SliceFromByte(s, b) ==
    IF \E k \in 0..Len(s) : ByteLen(SubSeq(s, 1, k)) = b
    THEN LET k == CHOOSE k \in 0..Len(s) : ByteLen(SubSeq(s, 1, k)) = b
         IN [panicked |-> FALSE, val |-> SubSeq(s, k + 1, Len(s))]
    ELSE [panicked |-> TRUE, val |-> <<>>]

\* str::split_once; hit[i] tells whether the pattern matches character i
SplitOnce(s, hit) ==
    IF \E i \in 1..Len(s) : hit[i]
    THEN LET i == CHOOSE i \in 1..Len(s) :
                      hit[i] /\ \A j \in 1..(i - 1) : ~hit[j]
         IN [some |-> TRUE, fst |-> SubSeq(s, 1, i - 1),
             snd |-> SubSeq(s, i + 1, Len(s))]
    ELSE [some |-> FALSE, fst |-> <<>>, snd |-> <<>>]

RECURSIVE SplitWs(_, _)
SplitWs(s, cur) ==
    IF s = <<>> THEN (IF cur = <<>> THEN <<>> ELSE <<cur>>)
    ELSE IF IsWhitespace(Head(s))
         THEN (IF cur = <<>> THEN <<>> ELSE <<cur>>) \o SplitWs(Tail(s), <<>>)
         ELSE SplitWs(Tail(s), Append(cur, Head(s)))

split_whitespace(s) == SplitWs(s, <<>>)

RECURSIVE TrimStart(_)
TrimStart(s) ==
    IF s # <<>> /\ IsWhitespace(Head(s)) THEN TrimStart(Tail(s)) ELSE s

RECURSIVE TrimEnd(_)
TrimEnd(s) ==
    IF s # <<>> /\ IsWhitespace(s[Len(s)])
    THEN TrimEnd(SubSeq(s, 1, Len(s) - 1)) ELSE s

trim(s) == TrimEnd(TrimStart(s))

-----------------------------------------------------------------------------
(* Token classifier *)

is_template(tok) == tok # <<>> /\ tok[1] = Marker

\* the patterns of lib.rs:97 and lib.rs:98
IsMarker(s) == [i \in 1..Len(s) |-> s[i] = Marker]
NotAlphanumeric(s) == [i \in 1..Len(s) |-> ~IsAlphanumeric(s[i])]

Split(p, t, s) == [panicked |-> FALSE, prefix |-> p, template |-> t, suffix |-> s]
SplitPanic == [panicked |-> TRUE, prefix |-> <<>>, template |-> <<>>, suffix |-> <<>>]

\* extract_template without the special case of lib.rs:102-103
extract_template_plain_suffix(tok) ==
    LET split == SplitOnce(tok, IsMarker(tok)) IN
    IF split.some
    THEN LET inner_split == SplitOnce(split.snd, NotAlphanumeric(split.snd)) IN
         IF inner_split.some
         THEN Split(split.fst, inner_split.fst, inner_split.snd)
         ELSE Split(split.fst, split.snd, <<>>)
    ELSE Split(<<>>, <<>>, <<>>)

extract_template(tok) ==
    LET split == SplitOnce(tok, IsMarker(tok)) IN
    IF split.some
    THEN LET inner_split == SplitOnce(split.snd, NotAlphanumeric(split.snd)) IN
         IF inner_split.some
         THEN IF inner_split.snd = <<>>
              THEN LET last == SliceFromByte(split.snd, ByteLen(split.snd) - 1) IN
                   IF last.panicked THEN SplitPanic
                   ELSE Split(split.fst, inner_split.fst, last.val)
              ELSE Split(split.fst, inner_split.fst, inner_split.snd)
         ELSE Split(split.fst, split.snd, <<>>)
    ELSE Split(<<>>, <<>>, <<>>)

contains_template(s) ==
    \E k \in 1..Len(split_whitespace(s)) : is_template(split_whitespace(s)[k])

-----------------------------------------------------------------------------
(* Inputs: texts and resolvers *)

Some(v) == [some |-> TRUE, val |-> v]
None == [some |-> FALSE, val |-> <<>>]

Empty == <<>>
nA == <<"a">>
nT == <<"t">>
nU == <<"u">>
nE == <<"e">>

ResolverNames == {Empty, nA, nT, nU, nE}

ReplA == {None, Some(<<"x">>), Some(<<"'", "a">>),
          Some(<<"'", "t", " ", "'", "a">>), Some(<<"'", "u">>),
          Some(<<"p", "'", "t", ".", " ", "'", "u">>)}
ReplT == {None, Some(<<"x">>), Some(<<"'", "u">>), Some(<<" ", "x", " ">>)}
ReplU == {None, Some(<<"x">>)}
ReplE == {None, Some(<<>>)}
ReplEmpty == {None, Some(<<"y">>)}

Resolvers ==
    { [n \in ResolverNames |->
         CASE n = nA -> ra [] n = nT -> rt [] n = nU -> ru
           [] n = nE -> re [] OTHER -> r0]
      : ra \in ReplA, rt \in ReplT, ru \in ReplU, re \in ReplE, r0 \in ReplEmpty }

Texts ==
    { <<"'", "a">>,
      <<"x", " ", " ", "y">>,
      <<"p", "'", "a", ".">>,
      <<"'", "e", ".", "'", "a">>,
      <<"'", "a", "U00A7">>,
      <<"'", "a", "'", "t">>,
      <<"x", " ", "'", "u", " ", "'", "a">>,
      <<" ", "'", "t", " ">> }

\* map(name): the caller's closure; a name it does not know gives None
Lookup(m, name) == IF name \in DOMAIN m THEN m[name] ELSE None

-----------------------------------------------------------------------------
(* TextInterpolator::interp *)

NoResult == [kind |-> "none", val |-> <<>>]
Ok(v) == [kind |-> "ok", val |-> v]
Err == [kind |-> "err", val |-> <<>>]

NewFrame(t) ==
    [text |-> t, n |-> 0, output |-> <<>>, item |-> <<>>,
     template_split |-> Split(<<>>, <<>>, <<>>), substitution |-> <<>>,
     pc |-> "for"]

Depth == Len(stack)
Top == stack[Depth]
Items(f) == split_whitespace(f.text)
SetTop(f) == [stack EXCEPT ![Depth] = f]
Pop == SubSeq(stack, 1, Depth - 1)

\* output.push_str(&substitution); output.push(' ');
Emit(f, it, ts, sub) ==
    [f EXCEPT !.n = f.n + 1, !.item = it, !.template_split = ts,
              !.substitution = sub, !.output = f.output \o sub \o <<Space>>,
              !.pc = "for"]

LimitReachedOffByOne(tr) == tr > RECURSION_LIMIT

LimitReached(tr) == tr >= RECURSION_LIMIT

\* TextInterpolator::new()
Init ==
    /\ times_recursed = 0
    /\ stack = <<>>
    /\ status = "idle"
    /\ result = NoResult
    /\ text = <<>>
    /\ map = [n \in ResolverNames |-> None]
    /\ asked_none = FALSE
    /\ calls = 0
    /\ embedded_template = <<>>
    /\ extracted = Split(<<>>, <<>>, <<>>)
    /\ applied = FALSE

\* the caller invokes interp(t, m) from outside
Enter(t, m) ==
    /\ text' = t
    /\ map' = m
    /\ stack' = <<NewFrame(t)>>
    /\ status' = "running"
    /\ result' = NoResult
    /\ asked_none' = FALSE
    /\ calls' = calls + 1
    /\ UNCHANGED <<times_recursed, extractVars>>

\* the first top-level call on the instance new() made
Call ==
    /\ status = "idle"
    /\ \E t \in Texts, m \in Resolvers : Enter(t, m)

\* a later top-level call on the same instance
CallAgain ==
    /\ status = "returned"
    /\ calls < MaxCalls
    /\ \E t \in Texts, m \in Resolvers : Enter(t, m)

AtFor == status = "running" /\ result.kind = "none" /\ Depth > 0
           /\ Top.pc = "for" /\ Top.n < Len(Items(Top))
NextItem == Items(Top)[Top.n + 1]

\* the slice of lib.rs:103 is not on a char boundary
ExtractPanic ==
    /\ AtFor
    /\ extract_template(NextItem).panicked
    /\ status' = "panicked"
    /\ UNCHANGED <<times_recursed, stack, result, text, map, asked_none, calls,
                   extractVars>>

\* map(template) is None: the item is emitted as it is
ItemNone ==
    /\ AtFor
    /\ LET ts == extract_template(NextItem) IN
         /\ ~ts.panicked
         /\ ~Lookup(map, ts.template).some
         /\ stack' = SetTop(Emit(Top, NextItem, ts, NextItem))
    /\ asked_none' = TRUE
    /\ UNCHANGED <<times_recursed, status, result, text, map, calls, extractVars>>

\* map(template) is Some and the guard is below the limit
ItemSome ==
    /\ AtFor
    /\ LET ts == extract_template(NextItem) IN
         /\ ~ts.panicked
         /\ Lookup(map, ts.template).some
         /\ ~LimitReached(times_recursed)
         /\ stack' = SetTop([Top EXCEPT !.item = NextItem, !.template_split = ts,
                               !.substitution = Lookup(map, ts.template).val,
                               !.pc = "while"])
    /\ UNCHANGED <<times_recursed, status, result, text, map, asked_none, calls,
                   extractVars>>

\* the error return of lib.rs:49-52 without the reset of line 50
ReturnLimitErrNoReset ==
    /\ AtFor
    /\ LET ts == extract_template(NextItem) IN
         /\ ~ts.panicked
         /\ Lookup(map, ts.template).some
         /\ LimitReached(times_recursed)
    /\ times_recursed' = times_recursed
    /\ stack' = Pop
    /\ result' = Err
    /\ status' = IF Depth = 1 THEN "returned" ELSE "running"
    /\ UNCHANGED <<text, map, asked_none, calls, extractVars>>

\* map(template) is Some and the guard has reached the limit
ReturnLimitErr ==
    /\ AtFor
    /\ LET ts == extract_template(NextItem) IN
         /\ ~ts.panicked
         /\ Lookup(map, ts.template).some
         /\ LimitReached(times_recursed)
    /\ times_recursed' = 0
    /\ stack' = Pop
    /\ result' = Err
    /\ status' = IF Depth = 1 THEN "returned" ELSE "running"
    /\ UNCHANGED <<text, map, asked_none, calls, extractVars>>

AtWhile == status = "running" /\ result.kind = "none" /\ Depth > 0
             /\ Top.pc = "while"

\* the while condition holds: count the descent and call interp(&substitution)
Descend ==
    /\ AtWhile
    /\ contains_template(Top.substitution)
    /\ Depth < StackLimit
    /\ times_recursed' = (times_recursed + 1) % U8Modulus
    /\ stack' = Append(SetTop([Top EXCEPT !.pc = "call"]),
                       NewFrame(Top.substitution))
    /\ UNCHANGED <<status, result, text, map, asked_none, calls, extractVars>>

\* the descent does not fit on the call stack any more
StackOverflow ==
    /\ AtWhile
    /\ contains_template(Top.substitution)
    /\ Depth >= StackLimit
    /\ times_recursed' = (times_recursed + 1) % U8Modulus
    /\ status' = "overflow"
    /\ UNCHANGED <<stack, result, text, map, asked_none, calls, extractVars>>

\* the while condition fails: prefix + substitution + suffix is emitted
Substitute ==
    /\ AtWhile
    /\ ~contains_template(Top.substitution)
    /\ stack' = SetTop(Emit(Top, Top.item, Top.template_split,
                            Top.template_split.prefix \o Top.substitution
                              \o Top.template_split.suffix))
    /\ UNCHANGED <<times_recursed, status, result, text, map, asked_none, calls,
                   extractVars>>

\* the for loop is over: reset the guard and return Ok(output.trim())
ReturnOk ==
    /\ status = "running" /\ result.kind = "none" /\ Depth > 0
    /\ Top.pc = "for" /\ Top.n = Len(Items(Top))
    /\ times_recursed' = 0
    /\ IF Depth = 1
       THEN /\ stack' = <<>>
            /\ result' = Ok(trim(Top.output))
            /\ status' = "returned"
       ELSE /\ stack' = [Pop EXCEPT ![Depth - 1] =
                           [@ EXCEPT !.substitution = trim(Top.output),
                                     !.pc = "while"]]
            /\ UNCHANGED <<result, status>>
    /\ UNCHANGED <<text, map, asked_none, calls, extractVars>>

\* the ? of lib.rs:56: the caller returns the callee's error
PropagateErr ==
    /\ status = "running" /\ result.kind = "err" /\ Depth > 0
    /\ Top.pc = "call"
    /\ stack' = Pop
    /\ status' = IF Depth = 1 THEN "returned" ELSE "running"
    /\ UNCHANGED <<times_recursed, result, text, map, asked_none, calls, extractVars>>

\* the steps of one top-level call
Step ==
    \/ ExtractPanic
    \/ ItemNone
    \/ ItemSome
    \/ ReturnLimitErr
    \/ Descend
    \/ StackOverflow
    \/ Substitute
    \/ ReturnOk
    \/ PropagateErr

Next ==
    \/ Call
    \/ CallAgain
    \/ Step

Spec == Init /\ [][Next]_vars

\* one call on a fresh instance; a call that can take a step takes it
\* (interp is single-threaded and synchronous, nothing else is scheduled)
OneCallNext ==
    \/ Call
    \/ Step

FairSpec == Init /\ [][OneCallNext]_vars /\ WF_vars(Step)

-----------------------------------------------------------------------------
(* extract_template called directly, on every token up to MaxTokenLen *)

ExtractAlphabet == {"a", "'", ".", "U00A7", "U00E9"}

TokensUpTo(n) == UNION { [1..k -> ExtractAlphabet] : k \in 0..n }

ExtractInit ==
    /\ times_recursed = 0
    /\ stack = <<>>
    /\ status = "idle"
    /\ result = NoResult
    /\ text = <<>>
    /\ map = [n \in ResolverNames |-> None]
    /\ asked_none = FALSE
    /\ calls = 0
    /\ embedded_template \in TokensUpTo(MaxTokenLen)
    /\ extracted = Split(<<>>, <<>>, <<>>)
    /\ applied = FALSE

ApplyExtract ==
    /\ ~applied
    /\ extracted' = extract_template(embedded_template)
    /\ applied' = TRUE
    /\ UNCHANGED <<embedded_template, interpVars>>

ExtractNext == ApplyExtract

ExtractSpec == ExtractInit /\ [][ExtractNext]_vars

-----------------------------------------------------------------------------
(* Vocabulary of the properties *)

Range(q) == { q[i] : i \in 1..Len(q) }

HasMarker(s) == \E i \in 1..Len(s) : s[i] = Marker

Recon(ts) == ts.prefix \o <<Marker>> \o ts.template \o ts.suffix

AllEmpty(ts) == ts.prefix = <<>> /\ ts.template = <<>> /\ ts.suffix = <<>>

IsSubstring(a, b) ==
    \E i \in 0..(Len(b) - Len(a)) : SubSeq(b, i + 1, i + Len(a)) = a

RECURSIVE JoinSp(_)
JoinSp(q) ==
    IF q = <<>> THEN <<>>
    ELSE IF Len(q) = 1 THEN q[1]
    ELSE q[1] \o <<Space>> \o JoinSp(Tail(q))

\* the names interp asks the resolver about when it walks s
NamesIn(s) == { extract_template(tok).template : tok \in Range(split_whitespace(s)) }

\* the names a descent into the replacement of n asks about
Succ(m, n) ==
    IF Lookup(m, n).some /\ contains_template(Lookup(m, n).val)
    THEN NamesIn(Lookup(m, n).val) ELSE {}

RECURSIVE Reach(_, _)
Reach(m, S) ==
    LET S2 == S \cup UNION { Succ(m, n) : n \in S }
    IN IF S2 = S THEN S ELSE Reach(m, S2)

\* some template reachable from t expands to a text that contains it again
Cyclic(t, m) ==
    \E n \in Reach(m, NamesIn(t)) : n \in Reach(m, Succ(m, n))

\* no extraction of the expansion of t can hit the slice of lib.rs:103
PanicFree(t, m) ==
    /\ \A tok \in Range(split_whitespace(t)) : ~extract_template(tok).panicked
    /\ \A n \in Reach(m, NamesIn(t)) :
          \A tok \in Range(split_whitespace(Lookup(m, n).val)) :
             ~extract_template(tok).panicked

\* the marked tokens, in t or in a replacement interp descends into, whose
\* name the resolver does not know
UnresolvedTokens(t, m) ==
    LET walked == Range(split_whitespace(t)) \cup
                  UNION { Range(split_whitespace(Lookup(m, n).val)) :
                            n \in { k \in Reach(m, NamesIn(t)) : Succ(m, k) # {} } }
    IN { tok \in walked : /\ is_template(tok)
                          /\ ~extract_template(tok).panicked
                          /\ ~Lookup(m, extract_template(tok).template).some }

\* ... and those of them that are inside a replacement
NestedUnresolvedTokens(t, m) ==
    { tok \in UnresolvedTokens(t, m) : tok \notin Range(split_whitespace(t)) }

-----------------------------------------------------------------------------
(* C1: for every text and resolver in which a template reachable from the  *)
(* text expands to a replacement that contains the same template again,    *)
(* the top-level interp returns Err(RecursionLimitReachedError): the call  *)
(* never ends otherwise, and the recursion never outgrows the call stack.  *)
C1_CyclicReturnsErr ==
    (Cyclic(text, map) /\ PanicFree(text, map)
       /\ status \in {"returned", "overflow"})
    => (status = "returned" /\ result.kind = "err")

(* C2: whenever a top-level interp has returned, with Ok or with Err, and  *)
(* whenever the next top-level call starts, times_recursed is 0, the       *)
(* value of a freshly constructed TextInterpolator (its only mutable       *)
(* field), whatever calls were made before.                                *)
C2_GuardResetOnReturn ==
    status \in {"idle", "returned"} => times_recursed = 0

C2_Witness ==
    calls > 1 /\ status = "returned" /\ result.kind = "err" /\ times_recursed = 0

(* C3: for every acyclic text and resolver with a marked token, in the     *)
(* text or inside a replacement, whose name the resolver answers None      *)
(* for, interp terminates, returns Ok, and the output contains the token.  *)
C3_UnresolvedPassesThrough ==
    (/\ status = "running"
     /\ ~Cyclic(text, map) /\ PanicFree(text, map)
     /\ UnresolvedTokens(text, map) # {})
    ~> (/\ status = "returned" /\ result.kind = "ok"
        /\ \A tok \in UnresolvedTokens(text, map) : IsSubstring(tok, result.val))

(* C4: at every point of a top-level interp call at most                   *)
(* RECURSION_LIMIT + 1 = 26 interp activations are active.                 *)
C4_DepthBounded == Depth <= RECURSION_LIMIT + 1

(* C5: for every resolver, also one that answers for the empty name, a     *)
(* token whose extracted template is empty is emitted unchanged; so interp *)
(* on a text without a marker returns Ok with the tokens of the text in    *)
(* their order, joined by single spaces.                                   *)
C5_EmptyTemplateUnchanged ==
    /\ \A d \in 1..Depth :
          (stack[d].pc = "for" /\ stack[d].n > 0
             /\ stack[d].template_split.template = <<>>)
          => stack[d].substitution = stack[d].item
    /\ (status = "returned" /\ ~HasMarker(text))
          => result = Ok(JoinSp(split_whitespace(text)))

(* C6: when the resolver has answered every name it was asked about and    *)
(* interp returns Ok(out), no whitespace-delimited token of out begins     *)
(* with the marker: contains_template(out) is false.                       *)
C6_FixedPoint ==
    (status = "returned" /\ result.kind = "ok" /\ ~asked_none)
    => ~contains_template(result.val)

(* C7 as stated: whenever extract_template returns a non-empty template,   *)
(* prefix + marker + template + suffix is the token; a token without a     *)
(* marker gives three empty fields.                                        *)
C7_ReconstructsToken ==
    (applied /\ ~extracted.panicked)
    => /\ extracted.template # <<>> => Recon(extracted) = embedded_template
       /\ ~HasMarker(embedded_template) => AllEmpty(extracted)

(* C7 as amended: whenever extract_template returns a non-empty template,  *)
(* prefix + marker + template + suffix is the token if the alphanumeric    *)
(* run reaches the end of the token or the character that ends the run is  *)
(* the last character of the token; if more text follows the character     *)
(* that ends the run, that character is in none of the fields, and         *)
(* prefix + marker + template + that character + suffix is the token.  A   *)
(* token without a marker gives three empty fields.                        *)
C7_ReconstructsUpToTerminator ==
    (applied /\ ~extracted.panicked)
    => /\ extracted.template # <<>>
          => LET k == Len(extracted.prefix) + 1 + Len(extracted.template) IN
             IF k + 1 < Len(embedded_template)
             THEN extracted.prefix \o <<Marker>> \o extracted.template
                    \o <<embedded_template[k + 1]>> \o extracted.suffix
                  = embedded_template
             ELSE Recon(extracted) = embedded_template
       /\ ~HasMarker(embedded_template) => AllEmpty(extracted)

C7_Witness ==
    /\ applied /\ ~extracted.panicked /\ extracted.template # <<>>
    /\ Len(Recon(extracted)) < Len(embedded_template)

\* the fields as section 4.1 and the tests describe them
FirstMarker(tok) == CHOOSE i \in 1..Len(tok) :
                       tok[i] = Marker /\ \A j \in 1..(i - 1) : tok[j] # Marker
AfterMarker(tok) == SubSeq(tok, FirstMarker(tok) + 1, Len(tok))
RunLen(r) == CHOOSE k \in 0..Len(r) :
                /\ \A j \in 1..k : IsAlphanumeric(r[j])
                /\ (k < Len(r) => ~IsAlphanumeric(r[k + 1]))
DescribedSuffix(r) ==
    IF RunLen(r) = Len(r) THEN <<>>
    ELSE IF RunLen(r) + 1 = Len(r) THEN <<r[Len(r)]>>
    ELSE SubSeq(r, RunLen(r) + 2, Len(r))

(* C8: for every token with a marker extract_template returns prefix = the *)
(* text before the first apostrophe, template = the maximal alphanumeric   *)
(* run after it, and suffix = nothing if the run reaches the end, the      *)
(* terminating character if it is the last one, the text after the         *)
(* terminating character otherwise; for a token without an apostrophe the  *)
(* three fields are empty and is_template is false.                        *)
C8_FieldsAsDescribed ==
    applied
    => IF HasMarker(embedded_template)
       THEN /\ ~extracted.panicked
            /\ extracted.prefix = SubSeq(embedded_template, 1,
                                         FirstMarker(embedded_template) - 1)
            /\ extracted.template =
                  SubSeq(AfterMarker(embedded_template), 1,
                         RunLen(AfterMarker(embedded_template)))
            /\ extracted.suffix = DescribedSuffix(AfterMarker(embedded_template))
       ELSE /\ ~extracted.panicked
            /\ AllEmpty(extracted)
            /\ ~is_template(embedded_template)

(* C9: extract_template returns a value for every token, also when the     *)
(* character that ends the alphanumeric run is the last one of the token   *)
(* and takes more than one byte.                                           *)
C9_ExtractNeverPanics == applied => ~extracted.panicked

(* C10: in every reachable state 0 <= times_recursed <= RECURSION_LIMIT,   *)
(* and the increment in the while loop is only applied to a value below    *)
(* RECURSION_LIMIT.                                                        *)
C10_GuardWithinLimit ==
    /\ times_recursed \in 0..RECURSION_LIMIT
    /\ (AtWhile /\ contains_template(Top.substitution))
          => times_recursed < RECURSION_LIMIT

C10_Witness == status = "running" /\ times_recursed = RECURSION_LIMIT

====
